---- MODULE Spec2Model ----
(***************************************************************************)
(* Model of plant_distribution/simulation.py: plants living on an n x n    *)
(* grid, each one a simpy process racing a reproduction-attempt timeout    *)
(* against its death timeout, driven by simpy's event queue, which is      *)
(* ordered by (time, priority, insertion order).                           *)
(***************************************************************************)
EXTENDS Integers, Sequences, FiniteSets, TLC

\* ------------------------------------------------------------------------
\* Bounds of the model.  N, T, WeedBlock and the spread ranges stand for the
\* program's n = 100, T = 5000, the 4 x 4 weed block and the ranges 3 and 7,
\* scaled down; MaxBenign bounds the number of benign plants seeded and
\* MaxDelay the values drawn from the geometric distribution.
\* ------------------------------------------------------------------------
N == 2
T == 3
WeedBlock == 1
MaxBenign == 1
MaxDelay == 2
weed_spread_range == 1
plant_spread_range == 1

\* Program constants
avg_weed_life == 120
avg_weed_proliferation_time == 50
avg_plant_life == 300
avg_plant_proliferation_time == 300

\* simpy event priorities
URGENT == 0
NORMAL == 1

VARIABLES grid, n_plants, event_history, now, queue, plants, phase, seedq,
          active, offset, last, made

vars == <<grid, n_plants, event_history, now, queue, plants, phase, seedq,
          active, offset, last, made>>

Cells == (0 .. N - 1) \X (0 .. N - 1)

Min(a, b) == IF a < b THEN a ELSE b

Max(a, b) == IF a > b THEN a ELSE b

\* variant of Geometric: the sampler may return 0
GeometricFromZero(avg) == IF avg = 1 THEN {0, 1} ELSE 0 .. MaxDelay

\* np.random.geometric(1.0 / avg): a positive integer; p = 1 always gives 1
Geometric(avg) == IF avg = 1 THEN {1} ELSE 1 .. MaxDelay

\* np.random.randint(low=-r, high=r + 1, size=2)
RandOffsets(r) == (-r .. r) \X (-r .. r)

\* ------------------------------------------------------------------------
\* simpy's queue: a heap on (time, priority, eid); eids grow with each
\* scheduling, so the heap order is the order of this sequence, into which
\* an event is inserted behind every event of the same or a smaller
\* (time, priority).
\* ------------------------------------------------------------------------
NotAfter(a, b) == a.time < b.time \/ (a.time = b.time /\ a.prio <= b.prio)

ScheduleUnordered(q, ev) == Append(q, ev)

\* variant of Schedule: an event goes in front of the events of its own
\* (time, priority)
ScheduleLifo(q, ev) ==
  LET k == Cardinality({i \in 1 .. Len(q) : NotAfter(q[i], ev) /\ ~NotAfter(ev, q[i])})
  IN SubSeq(q, 1, k) \o <<ev>> \o SubSeq(q, k + 1, Len(q))

Schedule(q, ev) ==
  LET k == Cardinality({i \in 1 .. Len(q) : NotAfter(q[i], ev)})
  IN SubSeq(q, 1, k) \o <<ev>> \o SubSeq(q, k + 1, Len(q))

\* variant of Timeout: the delay is subtracted from the current time
TimeoutBackward(kind, p, t, delay) ==
  [time |-> t - delay, prio |-> NORMAL, kind |-> kind, plant |-> p]

\* env.timeout(delay) called at time t
Timeout(kind, p, t, delay) ==
  [time |-> t + delay, prio |-> NORMAL, kind |-> kind, plant |-> p]

\* env.process(...) called at time t: the process starts from an urgent event
Initialize(p, t) == [time |-> t, prio |-> URGENT, kind |-> "init", plant |-> p]

\* variant of ConditionEvent: the condition one time unit after its timeout
ConditionEventLate(p, t) ==
  [time |-> t + 1, prio |-> NORMAL, kind |-> "cond", plant |-> p]

\* the AnyOf condition of a race, triggered at time t by the first of its
\* two timeouts to be processed
ConditionEvent(p, t) ==
  [time |-> t, prio |-> NORMAL, kind |-> "cond", plant |-> p]

\* variant of UntilEvent: the stop event one time unit late
UntilEventLate == [time |-> T + 1, prio |-> URGENT, kind |-> "until", plant |-> 0]

UntilEvent == [time |-> T, prio |-> URGENT, kind |-> "until", plant |-> 0]

\* ------------------------------------------------------------------------
\* Plant.__init__
\* ------------------------------------------------------------------------
\* variant of InGrid: the first row and the first column are out of bounds
InGridStrict(x_, y_) == 0 < x_ /\ x_ < N /\ 0 < y_ /\ y_ < N

\* lines 56-57: the bounds assertions
InGrid(x_, y_) == 0 <= x_ /\ x_ < N /\ 0 <= y_ /\ y_ < N

Event(t, species, x_, y_, n) ==
  [t |-> t, species |-> species, x |-> x_, y |-> y_, n_plants |-> n]

\* the record the constructor appends (the counter is already incremented)
BirthEvent(species, x_, y_) == Event(now, species, x_, y_, n_plants + 1)

\* variant of DeathEvent: the record is built before the decrement
DeathEventStale(p) == Event(now, 0, plants[p].x, plants[p].y, n_plants)

\* the record appended on death (the counter is already decremented)
DeathEvent(p) == Event(now, 0, plants[p].x, plants[p].y, n_plants - 1)

PlantObject(species, x_, y_, al, ap, r, lifetime, parent) ==
  [species |-> species, x |-> x_, y |-> y_,
   avg_lifetime |-> al, avg_proliferation_time |-> ap, max_spread_range |-> r,
   born |-> now, parent |-> parent,
   life_over |-> now + lifetime, life_over_fired |-> FALSE,
   repro_at |-> 0, repro_fired |-> FALSE,
   triggered |-> FALSE, st |-> "new"]

\* The constructor called with plant list pl and queue q: the values it
\* leaves behind.  The counter is incremented before the bounds assertions,
\* the grid write and everything after them happen only if they pass.
Construct(species, x_, y_, al, ap, r, lifetime, parent, pl, q) ==
  IF InGrid(x_, y_)
  THEN [ok |-> TRUE,
        n_plants |-> n_plants + 1,
        grid |-> [grid EXCEPT ![<<x_, y_>>] = species],
        event_history |-> Append(event_history, BirthEvent(species, x_, y_)),
        plants |-> Append(pl, PlantObject(species, x_, y_, al, ap, r, lifetime, parent)),
        queue |-> Schedule(Schedule(q, Timeout("death", Len(pl) + 1, now, lifetime)),
                           Initialize(Len(pl) + 1, now)),
        made |-> <<Timeout("death", Len(pl) + 1, now, lifetime),
                   Initialize(Len(pl) + 1, now)>>]
  ELSE [ok |-> FALSE,
        n_plants |-> n_plants + 1,
        grid |-> grid,
        event_history |-> event_history,
        plants |-> pl,
        queue |-> q,
        made |-> <<>>]

\* ------------------------------------------------------------------------
\* run_sim: seeding
\* ------------------------------------------------------------------------
RowMajor(a, b) == a[1] < b[1] \/ (a[1] = b[1] /\ a[2] <= b[2])

RECURSIVE SeqOf(_)
SeqOf(S) ==
  IF S = {} THEN <<>>
  ELSE LET m == CHOOSE c \in S : \A d \in S : RowMajor(c, d)
       IN <<m>> \o SeqOf(S \ {m})

WeedCells == (0 .. WeedBlock - 1) \X (0 .. WeedBlock - 1)

\* the outcomes of (np.random.rand(n, n) < 0.1) with the weed block cleared
Seedings == {S \in SUBSET (Cells \ WeedCells) : Cardinality(S) <= MaxBenign}

SeedSeq(S, species) ==
  LET s == SeqOf(S)
  IN [i \in 1 .. Len(s) |-> [species |-> species, x |-> s[i][1], y |-> s[i][2]]]

\* made: the events of the environment in the order of their scheduling (the
\* order of simpy's event ids)

\* what the last step did: the plant resumed or created, the value it was
\* resumed with, the offset it used, whether (0, 0) had been drawn and
\* redrawn, the candidate cell and whether a plant was created there
NoOp == [op |-> "none", plant |-> 0, ret |-> {}, dx |-> 0, dy |-> 0,
         redrawn |-> FALSE, nx |-> 0, ny |-> 0, born |-> FALSE]

Init ==
  /\ grid = [c \in Cells |-> 0]
  /\ n_plants = 0
  /\ event_history = <<>>
  /\ now = 0
  /\ queue = <<>>
  /\ plants = <<>>
  /\ phase = "seed"
  /\ \E S \in Seedings : seedq = SeedSeq(S, 1) \o SeedSeq(WeedCells, -1)
  /\ active = 0
  /\ offset = <<0, 0>>
  /\ last = NoOp
  /\ made = <<>>

Seed(species, al, ap, r) ==
  /\ phase = "seed"
  /\ seedq # <<>>
  /\ Head(seedq).species = species
  /\ \E lifetime \in Geometric(al) :
       LET s == Head(seedq)
           c == Construct(species, s.x, s.y, al, ap, r, lifetime, 0, plants, queue)
       IN /\ n_plants' = c.n_plants
          /\ grid' = c.grid
          /\ event_history' = c.event_history
          /\ plants' = c.plants
          /\ queue' = c.queue
          /\ made' = made \o c.made
          /\ phase' = IF c.ok THEN phase ELSE "aborted"
          /\ last' = [NoOp EXCEPT !.op = "seed", !.plant = Len(plants) + 1,
                                  !.nx = s.x, !.ny = s.y, !.born = c.ok]
  /\ seedq' = Tail(seedq)
  /\ UNCHANGED <<now, active, offset>>

SeedBenign == Seed(1, avg_plant_life, avg_plant_proliferation_time, plant_spread_range)

SeedWeed == Seed(-1, avg_weed_life, avg_weed_proliferation_time, weed_spread_range)

\* env.run(until=T)
StartRun ==
  /\ phase = "seed"
  /\ seedq = <<>>
  /\ T > now
  /\ queue' = Schedule(queue, UntilEvent)
  /\ made' = Append(made, UntilEvent)
  /\ phase' = "run"
  /\ last' = [NoOp EXCEPT !.op = "start"]
  /\ UNCHANGED <<grid, n_plants, event_history, now, plants, seedq, active, offset>>

\* ------------------------------------------------------------------------
\* env.step(): the event at the head of the queue is processed
\* ------------------------------------------------------------------------
\* variant of Stepping: the scheduler takes an event while a process runs
SteppingAnytime == phase = "run" /\ queue # <<>>

Stepping == phase = "run" /\ active = 0 /\ queue # <<>>

\* line 67-68: a new race of a fresh reproduction timeout against
\* life_over_event
Race(pl, p, ia) ==
  [pl EXCEPT ![p].repro_at = now + ia, ![p].repro_fired = FALSE,
             ![p].triggered = FALSE, ![p].st = "waiting"]

\* the process of a new plant starts and runs to its first yield
FireInitialize ==
  /\ Stepping
  /\ Head(queue).kind = "init"
  /\ LET p == Head(queue).plant
     IN \E ia \in Geometric(plants[p].avg_proliferation_time) :
          /\ plants' = Race(plants, p, ia)
          /\ queue' = Schedule(Tail(queue), Timeout("repro", p, now, ia))
          /\ made' = Append(made, Timeout("repro", p, now, ia))
          /\ last' = [NoOp EXCEPT !.op = "init", !.plant = p]
  /\ now' = Head(queue).time
  /\ UNCHANGED <<grid, n_plants, event_history, phase, seedq, active, offset>>

\* a timeout is processed: the condition watching it is triggered unless it
\* has been already, or the process waiting for it has ended
FireTimeout(kind) ==
  /\ Stepping
  /\ Head(queue).kind = kind
  /\ LET e == Head(queue)
         p == e.plant
         pl == IF kind = "death"
               THEN [plants EXCEPT ![p].life_over_fired = TRUE]
               ELSE [plants EXCEPT ![p].repro_fired = TRUE]
     IN /\ IF plants[p].st = "waiting" /\ ~plants[p].triggered
           THEN /\ plants' = [pl EXCEPT ![p].triggered = TRUE]
                /\ queue' = Schedule(Tail(queue), ConditionEvent(p, e.time))
                /\ made' = Append(made, ConditionEvent(p, e.time))
           ELSE /\ plants' = pl
                /\ queue' = Tail(queue)
                /\ made' = made
        /\ now' = e.time
        /\ last' = [NoOp EXCEPT !.op = kind, !.plant = p]
  /\ UNCHANGED <<grid, n_plants, event_history, phase, seedq, active, offset>>

FireDeathTimer == FireTimeout("death")

FireReproTimer == FireTimeout("repro")

\* the value a process is resumed with: the timeouts of its race that have
\* been processed by the time the condition is
Ret(p) == (IF plants[p].life_over_fired THEN {"death"} ELSE {})
          \cup (IF plants[p].repro_fired THEN {"repro"} ELSE {})

\* variant of Release: the cell of the dead plant is left as it was
ReleaseSkipped(g, p) == g

\* line 71
Release(g, p) == [g EXCEPT ![<<plants[p].x, plants[p].y>>] = 0]

\* variant of PlantDied: death only if the reproduction timeout has not fired
PlantDiedOnlyAlone(ret) == ret = {"death"}

\* line 70: self.life_over_event in ret
PlantDied(ret) == "death" \in ret

\* variant of Die: no break, the loop goes on and the process waits again
DieWithoutBreak ==
  /\ Stepping
  /\ Head(queue).kind = "cond"
  /\ LET p == Head(queue).plant
     IN /\ PlantDied(Ret(p))
        /\ grid' = Release(grid, p)
        /\ n_plants' = n_plants - 1
        /\ event_history' = Append(event_history, DeathEvent(p))
        /\ plants' = [plants EXCEPT ![p].st = "waiting", ![p].triggered = FALSE]
        /\ last' = [NoOp EXCEPT !.op = "die", !.plant = p, !.ret = Ret(p)]
  /\ queue' = Tail(queue)
  /\ now' = Head(queue).time
  /\ UNCHANGED <<phase, seedq, active, offset, made>>

\* lines 70-75
Die ==
  /\ Stepping
  /\ Head(queue).kind = "cond"
  /\ LET p == Head(queue).plant
     IN /\ PlantDied(Ret(p))
        /\ grid' = Release(grid, p)
        /\ n_plants' = n_plants - 1
        /\ event_history' = Append(event_history, DeathEvent(p))
        /\ plants' = [plants EXCEPT ![p].st = "dead"]
        /\ last' = [NoOp EXCEPT !.op = "die", !.plant = p, !.ret = Ret(p)]
  /\ queue' = Tail(queue)
  /\ now' = Head(queue).time
  /\ UNCHANGED <<phase, seedq, active, offset, made>>

\* line 78
BeginAttempt ==
  /\ Stepping
  /\ Head(queue).kind = "cond"
  /\ LET p == Head(queue).plant
     IN /\ ~PlantDied(Ret(p))
        /\ active' = p
        /\ plants' = [plants EXCEPT ![p].st = "running"]
        /\ last' = [NoOp EXCEPT !.op = "attempt", !.plant = p, !.ret = Ret(p)]
  /\ offset' = <<0, 0>>
  /\ queue' = Tail(queue)
  /\ now' = Head(queue).time
  /\ UNCHANGED <<grid, n_plants, event_history, phase, seedq, made>>

\* variant of OffsetRejected: no pair is rejected
OffsetRejectedNever(o) == FALSE

\* line 79: the loop condition
OffsetRejected(o) == o[1] = 0 /\ o[2] = 0

\* lines 79-81: one iteration of the rejection loop
Sample ==
  /\ phase = "run"
  /\ active # 0
  /\ OffsetRejected(offset)
  /\ offset' \in RandOffsets(plants[active].max_spread_range)
  /\ last' = [NoOp EXCEPT !.op = "sample", !.plant = active,
                          !.redrawn = (last.op = "sample")]
  /\ UNCHANGED <<grid, n_plants, event_history, now, queue, plants, phase,
                 seedq, active, made>>

\* variant of Clamp: the coordinate wraps around the grid
ClampWrap(v) == v % N

\* lines 82-83: min(max(v, 0), n - 1)
Clamp(v) == Min(Max(v, 0), N - 1)

\* variant of CellFree: the occupancy test always passes
CellFreeAlways(g, x_, y_) == TRUE

\* line 85
CellFree(g, x_, y_) == g[<<x_, y_>>] = 0

\* lines 82-88, then lines 67-68 of the next iteration
Place(free) ==
  /\ phase = "run"
  /\ active # 0
  /\ ~OffsetRejected(offset)
  /\ LET p == active
         me == plants[p]
         new_x == Clamp(me.x + offset[1])
         new_y == Clamp(me.y + offset[2])
     IN /\ CellFree(grid, new_x, new_y) = free
        /\ \E ia \in Geometric(me.avg_proliferation_time) :
             IF free
             THEN \E lifetime \in Geometric(me.avg_lifetime) :
                    LET c == Construct(me.species, new_x, new_y, me.avg_lifetime,
                                       me.avg_proliferation_time,
                                       me.max_spread_range, lifetime, p,
                                       plants, queue)
                    IN /\ n_plants' = c.n_plants
                       /\ grid' = c.grid
                       /\ event_history' = c.event_history
                       /\ phase' = IF c.ok THEN phase ELSE "aborted"
                       /\ plants' = IF c.ok THEN Race(c.plants, p, ia) ELSE c.plants
                       /\ queue' = IF c.ok
                                   THEN Schedule(c.queue, Timeout("repro", p, now, ia))
                                   ELSE c.queue
                       /\ made' = IF c.ok
                                  THEN Append(made \o c.made, Timeout("repro", p, now, ia))
                                  ELSE made
             ELSE /\ plants' = Race(plants, p, ia)
                  /\ queue' = Schedule(queue, Timeout("repro", p, now, ia))
                  /\ made' = Append(made, Timeout("repro", p, now, ia))
                  /\ UNCHANGED <<n_plants, grid, event_history, phase>>
        /\ last' = [NoOp EXCEPT !.op = "place", !.plant = p,
                                !.dx = offset[1], !.dy = offset[2],
                                !.redrawn = last.redrawn,
                                !.nx = new_x, !.ny = new_y, !.born = free]
  /\ active' = 0
  /\ offset' = <<0, 0>>
  /\ UNCHANGED <<now, seedq>>

PlaceOffspring == Place(TRUE)

AttemptFails == Place(FALSE)

\* the until event of env.run is processed: StopSimulation
FireUntil ==
  /\ Stepping
  /\ Head(queue).kind = "until"
  /\ now' = Head(queue).time
  /\ queue' = Tail(queue)
  /\ phase' = "done"
  /\ last' = [NoOp EXCEPT !.op = "until"]
  /\ UNCHANGED <<grid, n_plants, event_history, plants, seedq, active, offset,
                 made>>

Next ==
  \/ SeedBenign
  \/ SeedWeed
  \/ StartRun
  \/ FireInitialize
  \/ FireDeathTimer
  \/ FireReproTimer
  \/ Die
  \/ BeginAttempt
  \/ Sample
  \/ PlaceOffspring
  \/ AttemptFails
  \/ FireUntil

Spec == Init /\ [][Next]_vars

\* ------------------------------------------------------------------------
\* A run of one plant: a caller builds an environment, creates a single
\* plant with parameters of its choice (an average lifetime of 1 or more, a
\* spread range of 0 or more, coordinates that may lie outside the grid) and
\* runs the environment until T, as run_sim does with its own plants.
\* ------------------------------------------------------------------------
LoneCells == (-1 .. N) \X (-1 .. N)

InitLone ==
  /\ grid = [c \in Cells |-> 0]
  /\ n_plants = 0
  /\ event_history = <<>>
  /\ now = 0
  /\ queue = <<>>
  /\ plants = <<>>
  /\ phase = "seed"
  /\ \E c \in LoneCells : seedq = <<[species |-> 1, x |-> c[1], y |-> c[2]]>>
  /\ active = 0
  /\ offset = <<0, 0>>
  /\ last = NoOp
  /\ made = <<>>

SeedLone ==
  \E al \in {1, avg_plant_life}, r \in {0, plant_spread_range} :
    Seed(1, al, avg_plant_proliferation_time, r)

NextLone ==
  \/ SeedLone
  \/ StartRun
  \/ FireInitialize
  \/ FireDeathTimer
  \/ FireReproTimer
  \/ Die
  \/ BeginAttempt
  \/ Sample
  \/ PlaceOffspring
  \/ AttemptFails
  \/ FireUntil

SpecLone == InitLone /\ [][NextLone]_vars

\* lines 79-81: an iteration of the rejection loop whose pair ends the loop
DrawAccepted == Sample /\ ~OffsetRejected(offset')

\* the run of one plant with fair draws: a pair that can be drawn at every
\* iteration is drawn at some iteration
SpecLoneFair == SpecLone /\ WF_vars(DrawAccepted)

\* the steps of run_sim and of the loop of env.run that start at a statement
\* of run_sim or at an event of the queue
RunSteps ==
  \/ SeedBenign
  \/ SeedWeed
  \/ StartRun
  \/ FireInitialize
  \/ FireDeathTimer
  \/ FireReproTimer
  \/ Die
  \/ BeginAttempt
  \/ FireUntil

\* no process is between the end of its rejection loop and its next yield
AttemptEnded == active = 0 \/ OffsetRejected(offset)

\* run_sim as a program that runs on: a statement of run_sim that can be
\* executed is, env.run processes events as long as the queue holds one,
\* draws are fair, and a process that has left its rejection loop goes on
\* through lines 82-88 to its next yield (weak fairness of PlaceOffspring \/
\* AttemptFails, one of which is enabled exactly when AttemptEnded is false)
SpecFair ==
  Spec /\ WF_vars(RunSteps) /\ WF_vars(DrawAccepted) /\ []<>AttemptEnded

\* ------------------------------------------------------------------------
\* run_sim called again in the same process, followed up to the start of its
\* seeding: lines 92-99 make a new environment with a counter of 0 and draw
\* the benign positions; grid and event_history are module globals that
\* run_sim does not assign.
\* ------------------------------------------------------------------------
RunSimAgain ==
  /\ phase = "done"
  /\ n_plants' = 0
  /\ now' = 0
  /\ queue' = <<>>
  /\ plants' = <<>>
  /\ phase' = "reseed"
  /\ \E S \in Seedings : seedq' = SeedSeq(S, 1) \o SeedSeq(WeedCells, -1)
  /\ active' = 0
  /\ offset' = <<0, 0>>
  /\ last' = [NoOp EXCEPT !.op = "rerun"]
  /\ made' = <<>>
  /\ UNCHANGED <<grid, event_history>>

NextRerun == Next \/ RunSimAgain

SpecRerun == Init /\ [][NextRerun]_vars

\* ------------------------------------------------------------------------
\* Properties
\* ------------------------------------------------------------------------
Alive(p) == plants[p].st # "dead"

Ids == 1 .. Len(plants)

At(p) == <<plants[p].x, plants[p].y>>

Occupied == {c \in Cells : grid[c] # 0}

\* C1: the population counter env.n_plants equals the number of non-zero
\* cells of the grid, after seeding and after every process resumption.
C1_CounterMatchesGrid == n_plants = Cardinality(Occupied)

\* a plant born by reproduction and a death have both happened
C1_Witness ==
  /\ last.op = "die"
  /\ n_plants >= 1
  /\ \E p \in Ids : plants[p].parent # 0

\* every cell holds the species of the one living plant on it, or 0
C2_CellsReflectPlants ==
  \A c \in Cells :
    LET here == {p \in Ids : Alive(p) /\ At(p) = c}
    IN /\ Cardinality(here) <= 1
       /\ \A p \in here : grid[c] = plants[p].species
       /\ here = {} => grid[c] = 0

\* a new plant is put on a cell that was empty, and a cell is emptied only
\* by the death of the plant that was living on it
C2_BirthAndDeathSteps ==
  /\ Len(plants') > Len(plants) =>
       /\ Len(plants') = Len(plants) + 1
       /\ grid[<<plants'[Len(plants')].x, plants'[Len(plants')].y>>] = 0
  /\ \A c \in Cells :
       /\ (grid'[c] # grid[c] /\ grid'[c] # 0) => grid[c] = 0
       /\ (grid[c] # 0 /\ grid'[c] = 0) =>
            \E p \in Ids : At(p) = c /\ Alive(p) /\ plants'[p].st = "dead"

\* C2: no two living plants share a cell and each cell holds the species of
\* the living plant on it or 0; a birth (seeding or reproduction) writes only
\* into a cell that was empty, a cell becomes empty only by the death of its
\* occupant.
C2_OnePlantPerCell == []C2_CellsReflectPlants /\ [][C2_BirthAndDeathSteps]_vars

\* an offspring has just been placed while another plant has already died
C2_Witness ==
  /\ last.op = "place"
  /\ last.born
  /\ \E p \in Ids : ~Alive(p)

HasDeathRecord(p, t) ==
  \E i \in 1 .. Len(event_history) :
    event_history[i] = Event(t, 0, plants[p].x, plants[p].y, event_history[i].n_plants)

\* C3: a plant whose death timer and current reproduction timer are due at
\* the same time dies at that time (cell released, death recorded) and makes
\* no reproduction attempt then; no plant gets offspring at the time of its
\* own death.
C3_DeathWinsTie ==
  /\ \A p \in Ids :
       (plants[p].life_over = plants[p].repro_at /\ now > plants[p].life_over) =>
          /\ ~Alive(p)
          /\ grid[At(p)] = 0 \/ \E q \in Ids : q # p /\ Alive(q) /\ At(q) = At(p)
          /\ HasDeathRecord(p, plants[p].life_over)
  /\ \A c \in Ids :
       plants[c].parent # 0 => plants[c].born # plants[plants[c].parent].life_over
  /\ active # 0 => plants[active].life_over # now

\* a plant has died on being resumed with both timers fired
C3_Witness == last.op = "die" /\ last.ret = {"death", "repro"}

\* C4 as stated: when the run has stopped, every timer due at or before T has
\* fired, so that a plant whose death is due exactly at T has died.
C4_FiresThroughHorizon ==
  phase = "done" =>
    /\ \A i \in 1 .. Len(queue) : queue[i].time > T
    /\ \A p \in Ids : plants[p].life_over <= T => ~Alive(p)

\* C4 amended: the run fires, in time order, every timer due strictly before
\* T and stops when virtual time reaches T; timers due at T or later never
\* fire, every record has time < T, and a plant whose death is due exactly
\* at T is still alive when the run ends.
C4_FiresBeforeHorizon ==
  /\ \A i \in 1 .. Len(queue) : queue[i].time >= now
  /\ \A i \in 1 .. Len(event_history) : event_history[i].t <= now
  /\ phase \in {"seed", "run"} =>
       /\ now < T
       /\ \A p \in Ids : ~Alive(p) => plants[p].life_over <= now
  /\ phase = "done" =>
       /\ now = T
       /\ \A i \in 1 .. Len(queue) : queue[i].time >= T
       /\ \A i \in 1 .. Len(event_history) : event_history[i].t < T
       /\ \A p \in Ids : ~Alive(p) <=> plants[p].life_over < T
       /\ \A p \in Ids : plants[p].life_over = T => grid[At(p)] = plants[p].species

\* the run has stopped with a plant whose death timer was due exactly at T,
\* and with another that has died
C4_Witness ==
  /\ phase = "done"
  /\ \E p \in Ids : plants[p].life_over = T /\ Alive(p)
  /\ \E p \in Ids : ~Alive(p)

\* C5: the times of consecutive records of event_history never decrease.
C5_LogTimesMonotone ==
  \A i \in 1 .. Len(event_history) - 1 :
    event_history[i].t <= event_history[i + 1].t

\* records at three different times, the last one not the latest possible
C5_Witness ==
  /\ Len(event_history) >= 4
  /\ \E i, j \in 1 .. Len(event_history) :
       /\ i < j
       /\ 0 < event_history[i].t
       /\ event_history[i].t < event_history[j].t

\* C6: each record's n_plants is the previous record's (0 before the first)
\* plus 1 for a birth and minus 1 for a death, and is never negative.
C6_Conservation ==
  \A i \in 1 .. Len(event_history) :
    LET prev == IF i = 1 THEN 0 ELSE event_history[i - 1].n_plants
        r == event_history[i]
    IN /\ r.n_plants = prev + (IF r.species # 0 THEN 1 ELSE -1)
       /\ r.n_plants >= 0

\* a death record following a birth by reproduction
C6_Witness ==
  /\ last.op = "die"
  /\ \E i \in 1 .. Len(event_history) :
       event_history[i].species # 0 /\ event_history[i].t > 0

\* the cell a raw coordinate is projected on: the nearest one of 0 .. N - 1
Projected(v) == IF v < 0 THEN 0 ELSE IF v > N - 1 THEN N - 1 ELSE v

\* the candidate cell of the attempt the active plant is about to place
Candidate ==
  <<Projected(plants[active].x + offset[1]), Projected(plants[active].y + offset[2])>>

\* the step that ends an attempt: lines 82-88
Placing == active # 0 /\ active' = 0

\* C8: the candidate position of an attempt is the parent's position plus
\* the offset with each axis projected on [0, n-1] independently; an attempt
\* whose raw target is outside the grid is evaluated at that boundary cell:
\* the offspring is created there if it is empty, nowhere otherwise.
C8_ClampedCandidate ==
  [][Placing =>
       /\ <<last'.nx, last'.ny>> = Candidate
       /\ IF grid[Candidate] = 0
          THEN /\ Len(plants') = Len(plants) + 1
               /\ <<plants'[Len(plants')].x, plants'[Len(plants')].y>> = Candidate
               /\ grid' = [grid EXCEPT ![Candidate] = plants[active].species]
          ELSE /\ Len(plants') = Len(plants)
               /\ grid' = grid]_vars

\* an offspring placed on the boundary cell of a raw target outside the grid
C8_Witness ==
  /\ last.op = "place"
  /\ last.born
  /\ LET rx == plants[last.plant].x + last.dx
         ry == plants[last.plant].y + last.dy
     IN rx < 0 \/ rx > N - 1 \/ ry < 0 \/ ry > N - 1

\* C9: the offset used by a reproduction attempt is never (0, 0) and each
\* component lies in [-max_spread_range, max_spread_range].
C9_OffsetNonZeroInRange ==
  last.op = "place" =>
    LET r == plants[last.plant].max_spread_range
    IN /\ ~(last.dx = 0 /\ last.dy = 0)
       /\ -r <= last.dx /\ last.dx <= r
       /\ -r <= last.dy /\ last.dy <= r

\* an attempt made after (0, 0) had been drawn and redrawn
C9_Witness == last.op = "place" /\ last.redrawn

\* C10: an attempt whose candidate cell is occupied leaves the grid, the
\* counter and the log unchanged, creates no plant, and leaves the parent
\* alive in a new race with a reproduction timer ahead.
C10_FailedAttemptChangesNothing ==
  [][(Placing /\ grid[Candidate] # 0) =>
       /\ grid' = grid
       /\ n_plants' = n_plants
       /\ event_history' = event_history
       /\ Len(plants') = Len(plants)
       /\ phase' = phase
       /\ plants'[active].st = "waiting"
       /\ ~plants'[active].triggered
       /\ plants'[active].repro_at > now
       /\ \E i \in 1 .. Len(queue') :
            queue'[i] = [time |-> plants'[active].repro_at, prio |-> NORMAL,
                         kind |-> "repro", plant |-> active]
       /\ \A q \in Ids \ {active} : plants'[q] = plants[q]]_vars

\* a failed attempt that clamping mapped back on the parent's own cell
C10_Witness ==
  /\ last.op = "place"
  /\ ~last.born
  /\ <<last.nx, last.ny>> = At(last.plant)
  /\ \E q \in Ids : q # last.plant /\ Alive(q)

\* C11: a run of one plant of average lifetime 1 on an empty grid, T > 1,
\* ends with exactly two records, the birth at time 0 with n_plants 1 and the
\* death at a time >= 1 with n_plants 0, with no offspring, every cell empty
\* and the counter 0, whatever reproduction interval was drawn; before its
\* end it never has a second plant.
C11_LonePlantBornAndDies ==
  (Len(plants) >= 1 /\ plants[1].avg_lifetime = 1 /\ T > 1) =>
     /\ Len(plants) = 1
     /\ phase = "done" =>
          /\ Len(event_history) = 2
          /\ event_history[1] = Event(0, 1, plants[1].x, plants[1].y, 1)
          /\ event_history[2].species = 0
          /\ event_history[2].t >= 1
          /\ event_history[2].n_plants = 0
          /\ <<event_history[2].x, event_history[2].y>> = At(1)
          /\ \A c \in Cells : grid[c] = 0
          /\ n_plants = 0

\* the run has ended for a plant whose reproduction timer tied with its
\* death timer
C11_Witness ==
  /\ phase = "done"
  /\ Len(plants) = 1
  /\ plants[1].avg_lifetime = 1
  /\ plants[1].max_spread_range >= 1
  /\ plants[1].repro_at = plants[1].life_over

\* C12: a plant creation requested at coordinates outside the grid aborts
\* the run with the grid, the population counter and the event log exactly
\* as they were before the request.
C12_AbortLeavesStateUntouched ==
  [][(phase # "aborted" /\ phase' = "aborted") =>
       /\ grid' = grid
       /\ n_plants' = n_plants
       /\ event_history' = event_history]_vars

\* C13: when run_sim begins seeding, every cell of the grid is 0, also in a
\* call that follows an earlier run in the same process.
C13_RunStartsOnEmptyGrid ==
  (phase = "reseed" \/ (phase = "seed" /\ plants = <<>> /\ n_plants = 0)) =>
     \A c \in Cells : grid[c] = 0

\* the place of an event in the order of scheduling
MadeAt(e) == CHOOSE k \in 1 .. Len(made) : made[k] = e

\* the queue is in time order and, within one time, timeouts and the
\* conditions they trigger are in the order of their scheduling
C14_QueueInOrder ==
  /\ \A i, j \in 1 .. Len(made) : made[i] = made[j] => i = j
  /\ \A i \in 1 .. Len(queue) : \E k \in 1 .. Len(made) : made[k] = queue[i]
  /\ \A i, j \in 1 .. Len(queue) :
       i < j =>
         /\ queue[i].time <= queue[j].time
         /\ (queue[i].time = queue[j].time /\ queue[i].prio = NORMAL
               /\ queue[j].prio = NORMAL) => MadeAt(queue[i]) < MadeAt(queue[j])

\* a step of the scheduler takes the event at the head of the queue, and a
\* process is resumed, and appends its record, when its condition is that
\* event
C14_HeadIsNext ==
  /\ (phase = "run" /\ active = 0 /\ queue # <<>>) =>
       /\ now' = Head(queue).time
       /\ now' >= now
       /\ \A i \in 2 .. Len(queue) : \E k \in 1 .. Len(queue') : queue'[k] = queue[i]
  /\ (phase = "run" /\ event_history' # event_history /\ active = 0) =>
       /\ Head(queue).kind = "cond"
       /\ event_history' = Append(event_history, DeathEvent(Head(queue).plant))

\* C14: the scheduler always fires the pending timer with the smallest time,
\* timers due at the same time fire in the order of their creation, and the
\* processes waiting on them are resumed, and record, in that order.
C14_TimersFireInCreationOrder == []C14_QueueInOrder /\ [][C14_HeadIsNext]_vars

\* two processes wait to be resumed at the same time, behind a timer due then
C14_Witness ==
  \E i, j, k \in 1 .. Len(queue) :
    /\ i < j /\ j < k
    /\ queue[i].kind \in {"death", "repro"}
    /\ queue[j].kind = "cond" /\ queue[k].kind = "cond"
    /\ queue[i].time = queue[k].time

\* the death timers of plant p among the events of sequence s
DeathTimers(s, p) == {k \in 1 .. Len(s) : s[k].kind = "death" /\ s[k].plant = p}

C15_OneDeathTimer ==
  \A p \in Ids :
    /\ plants[p].life_over - plants[p].born \in Geometric(plants[p].avg_lifetime)
    /\ Cardinality(DeathTimers(made, p)) = 1
    /\ \A k \in DeathTimers(made, p) : made[k].time = plants[p].life_over
    /\ Cardinality(DeathTimers(queue, p)) = IF plants[p].life_over_fired THEN 0 ELSE 1
    /\ Alive(p) => grid[At(p)] = plants[p].species
    /\ now < plants[p].life_over => Alive(p) /\ ~plants[p].life_over_fired
    /\ ~Alive(p) => HasDeathRecord(p, plants[p].life_over) /\ plants[p].life_over_fired
    /\ (phase = "done" /\ plants[p].life_over < T) => ~Alive(p)

\* the death time of a plant never changes, and the step in which the plant
\* dies happens at that time and appends the record of that time
C15_DeathStep ==
  \A p \in Ids :
    /\ plants'[p].life_over = plants[p].life_over
    /\ plants'[p].born = plants[p].born
    /\ (Alive(p) /\ plants'[p].st = "dead") =>
         /\ now' = plants[p].life_over
         /\ event_history' = Append(event_history,
               Event(plants[p].life_over, 0, plants[p].x, plants[p].y, n_plants - 1))

BirthRecords(p) ==
  {i \in 1 .. Len(event_history) :
     /\ event_history[i].t = plants[p].born
     /\ event_history[i].species = plants[p].species
     /\ event_history[i].x = plants[p].x /\ event_history[i].y = plants[p].y}

\* the death records of plant p
DeathRecords(p) ==
  {i \in 1 .. Len(event_history) :
     /\ event_history[i].t = plants[p].life_over
     /\ event_history[i].species = 0
     /\ event_history[i].x = plants[p].x /\ event_history[i].y = plants[p].y}

\* only a live plant is in an attempt; each plant has one birth record, and
\* one death record once it is dead, none before; the log holds nothing else
C16_RecordsPerPlant ==
  /\ active # 0 => Alive(active)
  /\ \A p \in Ids :
       /\ Cardinality(BirthRecords(p)) = 1
       /\ Cardinality(DeathRecords(p)) = IF Alive(p) THEN 0 ELSE 1
  /\ Len(event_history) = Len(plants) + Cardinality({p \in Ids : ~Alive(p)})

\* a dead plant stays dead; the grid, the counter and the log are written
\* only in the resumption of a live plant; an event of a dead plant is taken
\* from the queue and nothing else happens
C16_DeadPlantIsInert ==
  /\ \A p \in Ids : ~Alive(p) => plants'[p].st = "dead"
  /\ (phase = "run" /\ (grid' # grid \/ n_plants' # n_plants
                          \/ event_history' # event_history
                          \/ Len(plants') # Len(plants))) =>
       \/ active # 0 /\ Alive(active)
       \/ active = 0 /\ Head(queue).kind = "cond" /\ Alive(Head(queue).plant)
  /\ (Stepping /\ Head(queue).kind # "until" /\ ~Alive(Head(queue).plant)) =>
       /\ grid' = grid /\ n_plants' = n_plants /\ event_history' = event_history
       /\ Len(plants') = Len(plants)
       /\ queue' = Tail(queue)
       /\ active' = 0

\* C16: Dead is terminal: a plant whose death has been processed never again
\* writes the grid, changes the counter, appends a record or gets offspring,
\* and its pending reproduction timer has no effect when it fires; each plant
\* has exactly one birth record and at most one death record.
C16_DeadIsTerminal == []C16_RecordsPerPlant /\ [][C16_DeadPlantIsInert]_vars

\* the reproduction timer of a dead plant has fired
C16_Witness == last.op = "repro" /\ ~Alive(last.plant)

\* while a process is between its resumption and its next yield, the clock
\* stands, no event leaves the queue, no other plant changes, and no other
\* process becomes the running one
C17_NoOtherProcessRuns ==
  (phase = "run" /\ active # 0) =>
     /\ now' = now
     /\ active' \in {active, 0}
     /\ \A i \in 1 .. Len(queue) : \E k \in 1 .. Len(queue') : queue'[k] = queue[i]
     /\ \A q \in Ids : q # active => plants'[q] = plants[q]
     /\ (grid' # grid \/ n_plants' # n_plants \/ event_history' # event_history) =>
          Len(plants') = Len(plants) + 1

\* a birth in the run: the cell found empty is the cell written, and the
\* write, the increment and the record are one step
C17_BirthIsOneStep ==
  (phase = "run" /\ Len(plants') = Len(plants) + 1) =>
     LET c == plants'[Len(plants')]
     IN /\ c.parent = active
        /\ grid[<<c.x, c.y>>] = 0
        /\ grid' = [grid EXCEPT ![<<c.x, c.y>>] = c.species]
        /\ n_plants' = n_plants + 1
        /\ event_history' = Append(event_history,
                                   Event(now, c.species, c.x, c.y, n_plants + 1))
        /\ active' = 0

\* a death: the release of the cell, the decrement and the record are one
\* step
C17_DeathIsOneStep ==
  \A p \in Ids :
    (Alive(p) /\ plants'[p].st = "dead") =>
       /\ grid' = [grid EXCEPT ![At(p)] = 0]
       /\ n_plants' = n_plants - 1
       /\ event_history' = Append(event_history,
                                  Event(now', 0, plants[p].x, plants[p].y, n_plants - 1))
       /\ Len(plants') = Len(plants)

\* C17: each resumption of a process is atomic with respect to the other
\* processes: none runs between the emptiness check of the candidate cell and
\* the write, increment and birth record of the offspring, so no two plants
\* are placed in one cell; the release, decrement and record of a death are
\* one step.
C17_ResumptionIsAtomic ==
  /\ [](\A p, q \in Ids : (p # q /\ Alive(p) /\ Alive(q)) => At(p) # At(q))
  /\ [][C17_NoOtherProcessRuns /\ C17_BirthIsOneStep /\ C17_DeathIsOneStep]_vars

\* offspring has been placed while another process waits to be resumed at
\* the same time
C17_Witness ==
  /\ last.op = "place" /\ last.born
  /\ \E i \in 1 .. Len(queue) :
       queue[i].kind = "cond" /\ queue[i].time = now /\ queue[i].plant # last.plant

\* no constructor call has failed its assertions, and every plant is at
\* coordinates of the grid
C18_PlantsInGrid ==
  /\ phase # "aborted"
  /\ \A p \in Ids : /\ 0 <= plants[p].x /\ plants[p].x < N
                     /\ 0 <= plants[p].y /\ plants[p].y < N

\* an attempt that finds its candidate cell empty creates the plant
C18_OffspringCreated ==
  (phase = "run" /\ active # 0 /\ last'.op = "place" /\ last'.born) =>
     /\ Len(plants') = Len(plants) + 1
     /\ plants'[Len(plants')].x = last'.nx /\ plants'[Len(plants')].y = last'.ny
     /\ last'.nx \in 0 .. N - 1 /\ last'.ny \in 0 .. N - 1

\* C18: in a run started by run_sim the bounds assertions of the constructor
\* are never violated: every plant created by reproduction, after any
\* births, deaths and attempts, is created at coordinates of the grid.
C18_AssertionsHold == []C18_PlantsInGrid /\ [][C18_OffspringCreated]_vars

\* a plant that is itself offspring has got offspring from an offset that
\* pointed out of the grid
C18_Witness ==
  /\ last.op = "place" /\ last.born
  /\ plants[last.plant].parent # 0
  /\ \/ plants[last.plant].x + last.dx \notin 0 .. N - 1
     \/ plants[last.plant].y + last.dy \notin 0 .. N - 1

\* a plant of spread range 0 in the rejection loop stays in it: nothing but
\* the draw of (0, 0) happens, the clock stands and no event is processed
C19_StuckAtRangeZero ==
  (phase = "run" /\ active # 0 /\ plants[active].max_spread_range = 0) =>
     /\ active' = active
     /\ offset' = <<0, 0>>
     /\ phase' = "run"
     /\ now' = now /\ queue' = queue
     /\ grid' = grid /\ n_plants' = n_plants /\ event_history' = event_history

\* C19: under fair draws the rejection loop ends if and only if the spread
\* range of the plant is at least 1: then a pair other than (0, 0) is
\* eventually drawn; with range 0 only (0, 0) can be drawn and neither the
\* loop nor the run goes on.
C19_LoopEndsIffRangePositive ==
  /\ (active # 0 /\ plants[active].max_spread_range >= 1 /\ OffsetRejected(offset))
       ~> (active # 0 /\ ~OffsetRejected(offset))
  /\ [][C19_StuckAtRangeZero]_vars
  /\ [](active # 0 /\ plants[active].max_spread_range = 0 => [](phase # "done"))

\* the loop of a plant of range 1 or more has ended after rejected draws
C19_Witness ==
  /\ last.op = "place" /\ last.redrawn
  /\ plants[last.plant].max_spread_range >= 1

\* every timer is due later than the time of its scheduling, and a plant
\* dies at a time later than that of its birth record
C20_DeathAfterBirth ==
  /\ Len(made') > Len(made) =>
       \A k \in Len(made) + 1 .. Len(made') :
         made'[k].kind \in {"death", "repro"} => made'[k].time > now
  /\ \A p \in Ids :
       (Alive(p) /\ plants'[p].st = "dead") =>
          \A i \in BirthRecords(p) :
            event_history'[Len(event_history')].t > event_history[i].t

\* C20: a run with finite horizon T and spread ranges of 1 or more ends:
\* lifetimes and reproduction intervals are at least 1 and the grid caps the
\* population, so the scheduler reaches the horizon; the death record of a
\* plant has a time greater than its birth record.
C20_RunTerminates ==
  /\ <>[](phase = "done" /\ now = T)
  /\ [](n_plants <= N * N)
  /\ [][C20_DeathAfterBirth]_vars

\* the run has ended after offspring was born and died
C20_Witness ==
  /\ phase = "done"
  /\ \E p \in Ids : plants[p].parent # 0 /\ ~Alive(p)

====
